---- MODULE Spec2Model ----
(***************************************************************************)
(* A model of email_client.py: the SQLite mirror kept by Storage (tables   *)
(* accounts, folders, misc), the transaction wrapper sqlite_txn, the       *)
(* shaping of JMAP responses by EmailServer, and the sync pass of the      *)
(* script's main block.                                                    *)
(*                                                                         *)
(* The database is the record db = [accounts, folders, misc]; every table  *)
(* is the set of its rows.  A Storage method is one action (Execute): it   *)
(* runs every statement of the method against a staged copy of db and      *)
(* sqlite_txn decides whether the staged copy or the old one is what is    *)
(* committed.  The arguments of the call in flight (call), its outcome     *)
(* (result) and the database before it (pre) stay visible until the        *)
(* caller goes on (Return).                                                *)
(*                                                                         *)
(* Two processes that run the script against the same file are modelled    *)
(* statement by statement (procs, lock, schema): BEGIN IMMEDIATE, every    *)
(* statement of the method on the process's staged copy, COMMIT or         *)
(* ROLLBACK.  The reads of Storage (get_folders, get_folder) leave their   *)
(* answer in ret.                                                          *)
(***************************************************************************)
EXTENDS Integers, Sequences, FiniteSets, TLC

VARIABLES db, pc, call, result, pre, procs, lock, schema, ret

vars == <<db, pc, call, result, pre, procs, lock, schema, ret>>

\* the part of the state only the two-process runs change
conc == <<procs, lock, schema>>

-----------------------------------------------------------------------------
(* Values *)

\* Python None, SQL NULL in a TEXT column
None == "None"

\* SQL NULL in an INTEGER column (rowids start at 1)
NullInt == 0

\* longest full listing (Mailbox/get list) a server answers with
MaxFolders == 2

\* most entries (created + updated + destroyed) of one changes response
MaxChanges == 2

ServerIds == {"a", "b"}

StateTokens == {"", "s1", "s2"}

AccountNames == {"u1", "u2"}

\* JSON null or a JSON list, as r.json() returns it
JsonNull == [isNull |-> TRUE, items |-> <<>>]

JsonList(s) == [isNull |-> FALSE, items |-> s]

\* Python truthiness of a JSON null / list
Truthy(v) == ~v.isNull /\ Len(v.items) > 0

\* Python truthiness of a str or None
TruthyStr(s) == s # None /\ s # ""

UpdatedPropertiesValues == {JsonNull, JsonList(<<"totalEmails", "unreadEmails">>)}

Mailbox(id, name, role, parentId, sortOrder) ==
    [id |-> id, name |-> name, role |-> role, parentId |-> parentId, sortOrder |-> sortOrder]

\* the Mailbox objects a server may list: "a" as a root, named Inbox or
\* renamed to Work; "b" as a root or under "a"; and two malformed ones, an
\* empty id and an empty name
Mailboxes ==
    { Mailbox("a", "Inbox", "inbox", None, 0),
      Mailbox("a", "Work", None, None, 1),
      Mailbox("b", "Archive", "archive", None, 1),
      Mailbox("b", "Archive", "archive", "a", 1),
      Mailbox("", "Work", None, None, 1),
      Mailbox("b", "", None, None, 0) }

SeqsUpTo(S, n) == UNION { [1..k -> S] : k \in 0..n }

RECURSIVE SeqToSet(_)
SeqToSet(s) == IF s = <<>> THEN {} ELSE {Head(s)} \cup SeqToSet(Tail(s))

-----------------------------------------------------------------------------
(* SQL: the schema's constraints and the statements the program executes *)

EmptyDb == [accounts |-> {}, folders |-> {}, misc |-> {}]

Ok(d) == [ok |-> TRUE, db |-> d, error |-> "none", constraint |-> "none", stmt |-> "none"]

IntegrityError(d, c, s) ==
    [ok |-> FALSE, db |-> d, error |-> "IntegrityError", constraint |-> c, stmt |-> s]

\* a connection without the pragma: SQLite's default, no foreign key enforced
ForeignKeysOff == FALSE

\* PRAGMA foreign_keys = ON
ForeignKeys == TRUE

\* FOREIGN KEY(account_id) REFERENCES accounts(id), FOREIGN KEY(parent_server_id)
\* REFERENCES folders(server_id): checked when the statement ends
FoldersFkOk(d) ==
    ~ForeignKeys \/
    \A r \in d.folders :
        /\ r.account_id = NullInt \/ \E a \in d.accounts : a.id = r.account_id
        /\ r.parent_server_id = None \/ \E p \in d.folders : p.server_id = r.parent_server_id

\* NOT NULL and CHECK constraints of one folders row
FoldersRowNotNull(r) == r.account_id # NullInt /\ r.server_id # None /\ r.name # None

\* a folders table declared without its CHECK constraints
FoldersRowUnchecked(r) == TRUE

\* CHECK (server_id != ''), CHECK (name != ''), CHECK (parent_server_id != '')
FoldersRowCheck(r) == r.server_id # "" /\ r.name # "" /\ r.parent_server_id # ""

\* INSERT INTO folders(...) VALUES(...)
InsertFolder(d, row, s) ==
    LET d2 == [d EXCEPT !.folders = @ \cup {row}] IN
    IF ~FoldersRowNotNull(row) THEN IntegrityError(d, "NOT NULL", s)
    ELSE IF ~FoldersRowCheck(row) THEN IntegrityError(d, "CHECK", s)
    ELSE IF \E r \in d.folders : r.server_id = row.server_id THEN IntegrityError(d, "UNIQUE", s)
    ELSE IF ~FoldersFkOk(d2) THEN IntegrityError(d, "FOREIGN KEY", s)
    ELSE Ok(d2)

\* UPDATE folders SET name=?, role=?, parent_server_id=?, sort_order=? WHERE server_id=?
UpdateFolder(d, f, s) ==
    LET new(r) == IF r.server_id = f.id
                  THEN [r EXCEPT !.name = f.name, !.role = f.role,
                                 !.parent_server_id = f.parent_id, !.sort_order = f.sort_order]
                  ELSE r
        hit == { r \in d.folders : r.server_id = f.id }
        d2 == [d EXCEPT !.folders = { new(r) : r \in d.folders }]
    IN
    IF \E r \in hit : ~FoldersRowNotNull(new(r)) THEN IntegrityError(d, "NOT NULL", s)
    ELSE IF \E r \in hit : ~FoldersRowCheck(new(r)) THEN IntegrityError(d, "CHECK", s)
    ELSE IF ~FoldersFkOk(d2) THEN IntegrityError(d, "FOREIGN KEY", s)
    ELSE Ok(d2)

\* DELETE FROM folders WHERE server_id=?
DeleteFolder(d, id, s) ==
    LET d2 == [d EXCEPT !.folders = { r \in @ : r.server_id # id }] IN
    IF ~FoldersFkOk(d2) THEN IntegrityError(d, "FOREIGN KEY", s) ELSE Ok(d2)

\* DELETE FROM folders
DeleteAllFolders(d) == Ok([d EXCEPT !.folders = {}])

\* cursor.lastrowid of an INTEGER PRIMARY KEY: one more than the largest rowid
NextRowId(rows) ==
    IF rows = {} THEN 1 ELSE 1 + CHOOSE m \in { r.id : r \in rows } : \A r \in rows : r.id <= m

\* INSERT INTO accounts(name, type) VALUES(?, 'JMAP')
InsertAccount(d, name) ==
    IF name = None THEN IntegrityError(d, "NOT NULL", "insert account")
    ELSE IF name = "" THEN IntegrityError(d, "CHECK", "insert account")
    ELSE IF \E a \in d.accounts : a.name = name THEN IntegrityError(d, "UNIQUE", "insert account")
    ELSE Ok([d EXCEPT !.accounts = @ \cup {[id |-> NextRowId(d.accounts), name |-> name, type |-> "JMAP"]}])

\* the insert under a schema whose misc.key is not UNIQUE: a second row for
\* the key takes the place of the first
InsertMiscNotUnique(d, key, value) ==
    IF key = None \/ value = None THEN IntegrityError(d, "NOT NULL", "insert token")
    ELSE IF key = "" \/ value = "" THEN IntegrityError(d, "CHECK", "insert token")
    ELSE Ok([d EXCEPT !.misc = { m \in @ : m.key # key } \cup {[key |-> key, value |-> value]}])

\* INSERT INTO misc(key, value) VALUES(?, ?)
InsertMisc(d, key, value) ==
    IF key = None \/ value = None THEN IntegrityError(d, "NOT NULL", "insert token")
    ELSE IF key = "" \/ value = "" THEN IntegrityError(d, "CHECK", "insert token")
    ELSE IF \E m \in d.misc : m.key = key THEN IntegrityError(d, "UNIQUE", "insert token")
    ELSE Ok([d EXCEPT !.misc = @ \cup {[key |-> key, value |-> value]}])

\* the update under a schema without misc's NOT NULL and CHECK (value != "")
UpdateMiscUnchecked(d, value, key) ==
    Ok([d EXCEPT !.misc = { IF m.key = key THEN [m EXCEPT !.value = value] ELSE m : m \in @ }])

\* UPDATE misc SET value = ? WHERE key = ?
UpdateMisc(d, value, key) ==
    LET hit == { m \in d.misc : m.key = key } IN
    IF hit # {} /\ value = None THEN IntegrityError(d, "NOT NULL", "update token")
    ELSE IF hit # {} /\ value = "" THEN IntegrityError(d, "CHECK", "update token")
    ELSE Ok([d EXCEPT !.misc = { IF m.key = key THEN [m EXCEPT !.value = value] ELSE m : m \in @ }])

\* DELETE FROM misc WHERE key = ?
DeleteMisc(d, key) == Ok([d EXCEPT !.misc = { m \in @ : m.key # key }])

-----------------------------------------------------------------------------
(* sqlite_txn and Storage *)

\* sqlite_txn without its except clause: what was staged before the
\* exception stays
sqlite_txn_no_rollback(committed, run) == run

\* the with-block of sqlite_txn around a body that ended as `run` on the
\* staged database: COMMIT makes the staged database the committed one,
\* an exception in the body is answered with ROLLBACK and raised again

sqlite_txn(committed, run) ==
    IF run.ok THEN run ELSE [run EXCEPT !.db = committed]

\* Storage.folders_state: the value of misc's 'folders-state' row, or None
folders_state(d) ==
    IF \E m \in d.misc : m.key = "folders-state"
    THEN (CHOOSE m \in d.misc : m.key = "folders-state").value
    ELSE None

\* the for-loops of save_folders and update_folders: statement after
\* statement on the staged database, up to the first one that raises
RECURSIVE InsertFolders(_, _, _, _)
InsertFolders(run, account_id, fs, s) ==
    IF ~run.ok \/ fs = <<>> THEN run
    ELSE LET f == Head(fs) IN
         InsertFolders(InsertFolder(run.db,
                                    [account_id |-> account_id, server_id |-> f.server_id,
                                     name |-> f.name, role |-> f.role,
                                     parent_server_id |-> f.parent_id,
                                     sort_order |-> f.sort_order], s),
                       account_id, Tail(fs), s)

RECURSIVE InsertCreated(_, _)
InsertCreated(run, fs) ==
    IF ~run.ok \/ fs = <<>> THEN run
    ELSE LET f == Head(fs) IN
         InsertCreated(InsertFolder(run.db,
                                    [account_id |-> NullInt, server_id |-> f.id,
                                     name |-> f.name, role |-> f.role,
                                     parent_server_id |-> f.parent_id,
                                     sort_order |-> f.sort_order], "insert created"),
                       Tail(fs))

RECURSIVE UpdateFolders(_, _)
UpdateFolders(run, fs) ==
    IF ~run.ok \/ fs = <<>> THEN run
    ELSE UpdateFolders(UpdateFolder(run.db, Head(fs), "update"), Tail(fs))

\* the loop over folder_changes['deleted'] left after its first DELETE
DeleteFirstFolder(run, fs) ==
    IF ~run.ok \/ fs = <<>> THEN run
    ELSE DeleteFolder(run.db, Head(fs).id, "delete")

RECURSIVE DeleteFolders(_, _)
DeleteFolders(run, fs) ==
    IF ~run.ok \/ fs = <<>> THEN run
    ELSE DeleteFolders(DeleteFolder(run.db, Head(fs).id, "delete"), Tail(fs))

\* Storage.delete_folders
delete_folders(d) ==
    LET s1 == DeleteMisc(d, "folders-state")
        s2 == IF s1.ok THEN DeleteAllFolders(s1.db) ELSE s1
    IN sqlite_txn(d, s2)

\* save_folders with the token insert after the with-block: the token is
\* written whether or not the inserts of the transaction were committed
save_folders_token_outside_txn(d, folders, state, account_name) ==
    LET s1 == InsertAccount(d, account_name)
        account_id == NextRowId(d.accounts)
        s2 == InsertFolders(s1, account_id, folders, "insert folder")
        t == sqlite_txn(d, s2)
        s3 == InsertMisc(t.db, "folders-state", state)
    IN IF t.ok THEN s3 ELSE [t EXCEPT !.db = s3.db]

\* Storage.save_folders
save_folders(d, folders, state, account_name) ==
    LET s1 == InsertAccount(d, account_name)
        account_id == NextRowId(d.accounts)
        s2 == InsertFolders(s1, account_id, folders, "insert folder")
        s3 == IF s2.ok THEN InsertMisc(s2.db, "folders-state", state) ELSE s2
    IN sqlite_txn(d, s3)

\* update_folders with the token statement of save_folders: an INSERT in
\* place of the UPDATE
update_folders_insert_token(d, folder_changes, state) ==
    LET s1 == InsertCreated(Ok(d), folder_changes.created)
        s2 == UpdateFolders(s1, folder_changes.updated)
        s3 == DeleteFolders(s2, folder_changes.deleted)
        s4 == IF s3.ok THEN InsertMisc(s3.db, "folders-state", state) ELSE s3
    IN sqlite_txn(d, s4)

\* Storage.update_folders
update_folders(d, folder_changes, state) ==
    LET s1 == InsertCreated(Ok(d), folder_changes.created)
        s2 == UpdateFolders(s1, folder_changes.updated)
        s3 == DeleteFolders(s2, folder_changes.deleted)
        s4 == IF s3.ok THEN UpdateMisc(s3.db, state, "folders-state") ELSE s3
    IN sqlite_txn(d, s4)

-----------------------------------------------------------------------------
(* EmailServer: the shaping of the server's answers *)

\* r.json() of the Mailbox/get call of get_folders
FoldersResponse(state, list) == [state |-> state, list |-> list]

\* r.json() of the three calls of get_folder_changes: Mailbox/changes, and the
\* Mailbox/get of its /created and of its /updated ids
ChangesResponse(newState, createdList, updatedList, destroyed, updatedProperties) ==
    [newState |-> newState,
     created |-> JsonList([i \in 1..Len(createdList) |-> createdList[i].id]),
     updated |-> JsonList([i \in 1..Len(updatedList) |-> updatedList[i].id]),
     destroyed |-> destroyed,
     updatedProperties |-> updatedProperties,
     createdList |-> createdList,
     updatedList |-> updatedList]

\* EmailServer.get_folders: (state, folders)
get_folders(r) ==
    [state |-> r.state,
     folders |-> [i \in 1..Len(r.list) |->
                    [server_id |-> r.list[i].id, name |-> r.list[i].name, role |-> r.list[i].role,
                     parent_id |-> r.list[i].parentId, sort_order |-> r.list[i].sortOrder]]]

ChangeDicts(list) ==
    [i \in 1..Len(list) |->
        [id |-> list[i].id, name |-> list[i].name, role |-> list[i].role,
         parent_id |-> list[i].parentId, sort_order |-> list[i].sortOrder]]

\* the test with its second operand not negated
UseUpdatedWhenPropertiesKnown(r) == Truthy(r.updated) /\ Truthy(r.updatedProperties)

\* the test that fills changes['updated']

UseUpdated(r) == Truthy(r.updated) /\ ~Truthy(r.updatedProperties)

\* EmailServer.get_folder_changes: (new_state, changes)
get_folder_changes(r) ==
    [state |-> r.newState,
     changes |-> [created |-> IF Truthy(r.created) THEN ChangeDicts(r.createdList) ELSE <<>>,
                  deleted |-> [i \in 1..Len(r.destroyed) |-> [id |-> r.destroyed[i]]],
                  updated |-> IF UseUpdated(r) THEN ChangeDicts(r.updatedList) ELSE <<>>]]

-----------------------------------------------------------------------------
(* Inputs *)

FolderListings == SeqsUpTo(Mailboxes, MaxFolders)

\* the (created, updated, destroyed) lists of a changes response, MaxChanges
\* entries in all
ChangeLists ==
    UNION { { [created |-> c, updated |-> u, destroyed |-> x] :
                c \in [1..i -> Mailboxes], u \in [1..j -> Mailboxes], x \in [1..k -> ServerIds] } :
            <<i, j, k>> \in { t \in (0..MaxChanges) \X (0..MaxChanges) \X (0..MaxChanges) :
                                t[1] + t[2] + t[3] <= MaxChanges } }

NoChanges == [created |-> <<>>, deleted |-> <<>>, updated |-> <<>>]

\* no changes response: the call in flight is not the sync pass's update_folders
NoResponse == ChangesResponse(None, <<>>, <<>>, <<>>, JsonNull)

\* the HTTP answer was ok and its JSON held every key
NoFault == [http_ok |-> TRUE, missing |-> "none"]

\* the call in flight: the Storage method, its arguments and, for a call of
\* the main block, the sinceState it asked the server for and the answer
NoCall == [op |-> "none", folders |-> <<>>, changes |-> NoChanges, state |-> None,
           account_name |-> None, caller |-> "none", since |-> None, response |-> NoResponse,
           fault |-> NoFault]

NoResult == [ok |-> TRUE, error |-> "none", constraint |-> "none", stmt |-> "none"]

ResultOf(run) == [ok |-> run.ok, error |-> run.error, constraint |-> run.constraint, stmt |-> run.stmt]

\* the tables of DB_INIT_STATEMENTS, in the order of their CREATE TABLE
DB_INIT_STATEMENTS == <<"accounts", "folders", "emails", "email_data", "misc">>

TableNames == { DB_INIT_STATEMENTS[i] : i \in DOMAIN DB_INIT_STATEMENTS }

\* the processes that run the script against one file
Procs == {"p1", "p2"}

\* the write lock of the file is held by no process
NoLock == "none"

\* a process before it constructs Storage: no call, nothing staged
NewProc == [pc |-> "new", call |-> NoCall, todo |-> <<>>,
            staged |-> [db |-> EmptyDb, schema |-> {}], ran |-> 0,
            base |-> EmptyDb, result |-> NoResult]

\* no read of Storage has answered
NoRet == [op |-> "none", arg |-> None, value |-> <<>>, error |-> "none"]

-----------------------------------------------------------------------------
(* The program *)

\* Storage(email_file) on a new file: _create_tables, every table empty
Init ==
    /\ db = EmptyDb
    /\ pc = "idle"
    /\ call = NoCall
    /\ result = NoResult
    /\ pre = EmptyDb
    /\ procs = [p \in Procs |-> NewProc]
    /\ lock = NoLock
    /\ schema = TableNames
    /\ ret = NoRet

\* one call of a Storage method, from its first statement to the COMMIT or
\* ROLLBACK of its transaction
RunCall(d, c) ==
    IF c.op = "save_folders" THEN save_folders(d, c.folders, c.state, c.account_name)
    ELSE IF c.op = "update_folders" THEN update_folders(d, c.changes, c.state)
    ELSE delete_folders(d)

Execute(c) ==
    /\ pc = "idle"
    /\ LET run == RunCall(db, c) IN
        /\ db' = run.db
        /\ result' = ResultOf(run)
    /\ call' = c
    /\ pre' = db
    /\ pc' = "returned"
    /\ UNCHANGED <<conc, ret>>

\* a caller of Storage.save_folders, whatever the mirror holds
CallSaveFolders ==
    /\ pc = "idle"
    /\ \E l \in FolderListings, state \in StateTokens, account \in AccountNames :
        Execute([NoCall EXCEPT !.op = "save_folders", !.caller = "api",
                               !.folders = get_folders(FoldersResponse(state, l)).folders,
                               !.state = state, !.account_name = account])

\* a caller of Storage.update_folders, whatever the mirror holds
CallUpdateFolders ==
    /\ pc = "idle"
    /\ \E l \in ChangeLists, state \in StateTokens :
        Execute([NoCall EXCEPT !.op = "update_folders", !.caller = "api",
                               !.changes = get_folder_changes(
                                   ChangesResponse(state, l.created, l.updated, l.destroyed, JsonNull)).changes,
                               !.state = state])

\* a caller of Storage.delete_folders
CallDeleteFolders ==
    /\ pc = "idle"
    /\ Execute([NoCall EXCEPT !.op = "delete_folders", !.caller = "api"])

\* the main block, mirror without a token: get_folders, then save_folders
SyncFetchAll ==
    /\ pc = "idle"
    /\ ~TruthyStr(folders_state(db))
    /\ \E l \in FolderListings, state \in StateTokens, account \in AccountNames :
        LET got == get_folders(FoldersResponse(state, l)) IN
        Execute([NoCall EXCEPT !.op = "save_folders", !.folders = got.folders,
                               !.state = got.state, !.account_name = account,
                               !.caller = "main"])

\* the main block, mirror with a token: get_folder_changes, then update_folders
SyncFetchChanges ==
    /\ pc = "idle"
    /\ TruthyStr(folders_state(db))
    /\ \E l \in ChangeLists, state \in StateTokens, props \in UpdatedPropertiesValues :
        LET r == ChangesResponse(state, l.created, l.updated, l.destroyed, props)
            got == get_folder_changes(r)
        IN
        Execute([NoCall EXCEPT !.op = "update_folders", !.changes = got.changes,
                               !.state = got.state, !.caller = "main",
                               !.since = folders_state(db), !.response = r])

\* the caller goes on: the GUI runs, the process ends, the script is started again
Return ==
    /\ pc = "returned"
    /\ pc' = "idle"
    /\ call' = NoCall
    /\ result' = NoResult
    /\ pre' = db
    /\ ret' = NoRet
    /\ UNCHANGED <<db, conc>>

Next == CallSaveFolders \/ CallUpdateFolders \/ CallDeleteFolders \/ Return

Spec == Init /\ [][Next]_vars

MainNext == SyncFetchAll \/ SyncFetchChanges \/ Return

MainSpec == Init /\ [][MainNext]_vars

\* runs of the main block with calls of delete_folders between them
ResetNext == SyncFetchAll \/ SyncFetchChanges \/ CallDeleteFolders \/ Return

ResetSpec == Init /\ [][ResetNext]_vars

-----------------------------------------------------------------------------
(* Two processes on one file, statement by statement *)

\* the first statement of sqlite_txn under SQLite's default, a deferred
\* BEGIN: the write lock is asked for by the first statement that writes
BeginDeferred == FALSE

\* cursor.execute('BEGIN IMMEDIATE'): the write lock is taken by BEGIN
BeginImmediate == TRUE

\* what the server answers to the two processes: an empty listing, "a", and
\* "a" with "b" under it; no change, "a" renamed, "b" destroyed, "a" destroyed
ConcListings ==
    { <<>>,
      << Mailbox("a", "Inbox", "inbox", None, 0) >>,
      << Mailbox("a", "Inbox", "inbox", None, 0), Mailbox("b", "Archive", "archive", "a", 1) >> }

ConcChangeLists ==
    { [created |-> <<>>, updated |-> <<>>, destroyed |-> <<>>],
      [created |-> <<>>, updated |-> << Mailbox("a", "Work", None, None, 1) >>, destroyed |-> <<>>],
      [created |-> <<>>, updated |-> <<>>, destroyed |-> << "b" >>],
      [created |-> <<>>, updated |-> <<>>, destroyed |-> << "a" >>] }

ConcTokens == {"s1", "s2"}

\* both processes sync the same account
ConcAccount == "u1"

Stmt(kind, arg) == [kind |-> kind, arg |-> arg]

\* the statements a Storage method executes inside its with-block, in order
Statements(c) ==
    IF c.op = "_create_tables"
    THEN [i \in DOMAIN DB_INIT_STATEMENTS |-> Stmt("create table", DB_INIT_STATEMENTS[i])]
    ELSE IF c.op = "save_folders"
    THEN << Stmt("insert account", c.account_name) >>
         \o [i \in 1..Len(c.folders) |-> Stmt("insert folder", c.folders[i])]
         \o << Stmt("insert token", c.state) >>
    ELSE IF c.op = "update_folders"
    THEN [i \in 1..Len(c.changes.created) |-> Stmt("insert created", c.changes.created[i])]
         \o [i \in 1..Len(c.changes.updated) |-> Stmt("update", c.changes.updated[i])]
         \o [i \in 1..Len(c.changes.deleted) |-> Stmt("delete", c.changes.deleted[i])]
         \o << Stmt("update token", c.state) >>
    ELSE << Stmt("delete token", "folders-state"), Stmt("delete folders", None) >>

\* sqlite3.OperationalError
OperationalError(why, s) ==
    [ok |-> FALSE, error |-> "OperationalError", constraint |-> why, stmt |-> s]

\* cursor.lastrowid after the INSERT INTO accounts of this transaction
LastRowId(rows) == NextRowId(rows) - 1

\* one cursor.execute on the staged database and schema of a transaction
ExecStmt(st, s) ==
    IF s.kind = "create table"
    THEN IF s.arg \in st.schema
         THEN [run |-> OperationalError("already exists", s.kind), staged |-> st]
         ELSE [run |-> ResultOf(Ok(st.db)), staged |-> [st EXCEPT !.schema = @ \cup {s.arg}]]
    ELSE LET run == IF s.kind = "insert account" THEN InsertAccount(st.db, s.arg)
                    ELSE IF s.kind = "insert folder"
                    THEN InsertFolders(Ok(st.db), LastRowId(st.db.accounts), << s.arg >>, s.kind)
                    ELSE IF s.kind = "insert token" THEN InsertMisc(st.db, "folders-state", s.arg)
                    ELSE IF s.kind = "insert created" THEN InsertCreated(Ok(st.db), << s.arg >>)
                    ELSE IF s.kind = "update" THEN UpdateFolder(st.db, s.arg, s.kind)
                    ELSE IF s.kind = "delete" THEN DeleteFolder(st.db, s.arg.id, s.kind)
                    ELSE IF s.kind = "update token" THEN UpdateMisc(st.db, s.arg, "folders-state")
                    ELSE IF s.kind = "delete token" THEN DeleteMisc(st.db, s.arg)
                    ELSE DeleteAllFolders(st.db)
         IN [run |-> ResultOf(run), staged |-> [st EXCEPT !.db = run.db]]

\* the file before any process has opened it: no table
ConcInit ==
    /\ db = EmptyDb
    /\ schema = {}
    /\ lock = NoLock
    /\ procs = [p \in Procs |-> NewProc]
    /\ pc = "idle"
    /\ call = NoCall
    /\ result = NoResult
    /\ pre = EmptyDb
    /\ ret = NoRet

seq == <<pc, call, result, pre, ret>>

\* Storage(email_file): the tables are created when sqlite_master lists none
Open(p) ==
    /\ procs[p].pc = "new"
    /\ procs' = [procs EXCEPT ![p] =
            IF schema = {}
            THEN [@ EXCEPT !.pc = "begin", !.call = [NoCall EXCEPT !.op = "_create_tables"]]
            ELSE [@ EXCEPT !.pc = "main"]]
    /\ UNCHANGED <<db, lock, schema, seq>>

\* `if not storage.folders_state`
CheckState(p) ==
    /\ procs[p].pc = "main"
    /\ procs' = [procs EXCEPT ![p].pc =
            IF TruthyStr(folders_state(db)) THEN "fetch changes" ELSE "fetch all"]
    /\ UNCHANGED <<db, lock, schema, seq>>

\* server.get_folders(), up to the call of save_folders
FetchAll(p) ==
    /\ procs[p].pc = "fetch all"
    /\ \E l \in ConcListings, state \in ConcTokens :
        LET got == get_folders(FoldersResponse(state, l)) IN
        procs' = [procs EXCEPT ![p].pc = "begin",
                               ![p].call = [NoCall EXCEPT !.op = "save_folders", !.folders = got.folders,
                                                          !.state = got.state,
                                                          !.account_name = ConcAccount,
                                                          !.caller = "main"]]
    /\ UNCHANGED <<db, lock, schema, seq>>

\* server.get_folder_changes(storage.folders_state), up to the call of
\* update_folders; a Mailbox/changes without sinceState (the token was
\* deleted after the test above) is answered with an error, which has no
\* 'newState': the pass ends with a KeyError
FetchChanges(p) ==
    /\ procs[p].pc = "fetch changes"
    /\ IF folders_state(db) = None
       THEN procs' = [procs EXCEPT ![p] = NewProc]
       ELSE \E l \in ConcChangeLists, state \in ConcTokens :
            LET r == ChangesResponse(state, l.created, l.updated, l.destroyed, JsonNull)
                got == get_folder_changes(r)
            IN
            procs' = [procs EXCEPT ![p].pc = "begin",
                                   ![p].call = [NoCall EXCEPT !.op = "update_folders",
                                                              !.changes = got.changes,
                                                              !.state = got.state, !.caller = "main",
                                                              !.since = folders_state(db),
                                                              !.response = r]]
    /\ UNCHANGED <<db, lock, schema, seq>>

\* a caller of storage.delete_folders() in place of the sync pass
Reset(p) ==
    /\ procs[p].pc = "main"
    /\ procs' = [procs EXCEPT ![p].pc = "begin",
                              ![p].call = [NoCall EXCEPT !.op = "delete_folders", !.caller = "api"]]
    /\ UNCHANGED <<db, lock, schema, seq>>

\* the BEGIN of sqlite_txn when it can go on: an immediate BEGIN takes the
\* free write lock, a deferred one takes nothing
Begin(p) ==
    /\ procs[p].pc = "begin"
    /\ BeginImmediate => lock = NoLock
    /\ lock' = IF BeginImmediate THEN p ELSE lock
    /\ procs' = [procs EXCEPT ![p].pc = "txn", ![p].todo = Statements(procs[p].call),
                              ![p].staged = [db |-> db, schema |-> schema],
                              ![p].base = db, ![p].ran = 0]
    /\ UNCHANGED <<db, schema, seq>>

\* BEGIN IMMEDIATE when another connection holds the write lock up to the
\* timeout: "database is locked" is raised before the try of sqlite_txn
BeginBusy(p) ==
    /\ procs[p].pc = "begin"
    /\ BeginImmediate
    /\ lock # NoLock
    /\ procs' = [procs EXCEPT ![p].pc = "done",
                              ![p].result = OperationalError("database is locked", "begin")]
    /\ UNCHANGED <<db, lock, schema, seq>>

\* the next cursor.execute of the with-block; one that raises is answered by
\* the ROLLBACK of sqlite_txn.  Under a deferred BEGIN the first statement
\* asks for the write lock.
Statement(p) ==
    /\ procs[p].pc = "txn"
    /\ procs[p].todo # <<>>
    /\ LET me == procs[p]
           s == Head(me.todo)
           locked == lock \notin {NoLock, p}
           st == IF lock = p THEN me.staged ELSE [db |-> db, schema |-> schema]
           x == IF locked
                THEN [run |-> OperationalError("database is locked", s.kind), staged |-> st]
                ELSE ExecStmt(st, s)
       IN
       IF x.run.ok
       THEN /\ procs' = [procs EXCEPT ![p].todo = Tail(me.todo), ![p].staged = x.staged,
                                      ![p].base = IF lock = p THEN me.base ELSE db,
                                      ![p].ran = me.ran + 1]
            /\ lock' = p
       ELSE /\ procs' = [procs EXCEPT ![p].pc = "done", ![p].result = x.run,
                                      ![p].staged = NewProc.staged]
            /\ lock' = IF lock = p THEN NoLock ELSE lock
    /\ UNCHANGED <<db, schema, seq>>

\* the COMMIT of sqlite_txn: the staged database becomes the file's
Commit(p) ==
    /\ procs[p].pc = "txn"
    /\ procs[p].todo = <<>>
    /\ db' = procs[p].staged.db
    /\ schema' = procs[p].staged.schema
    /\ lock' = NoLock
    /\ procs' = [procs EXCEPT ![p].pc = "done", ![p].result = NoResult,
                              ![p].staged = NewProc.staged]
    /\ UNCHANGED seq

\* the method has returned or raised: the constructor goes on to the main
\* block, anything else ends the sync pass of this process
Exit(p) ==
    /\ procs[p].pc = "done"
    /\ procs' = [procs EXCEPT ![p] =
            IF procs[p].call.op = "_create_tables" /\ procs[p].result.ok
            THEN [NewProc EXCEPT !.pc = "main"]
            ELSE NewProc]
    /\ UNCHANGED <<db, lock, schema, seq>>

ConcNext ==
    \E p \in Procs :
        \/ Open(p) \/ CheckState(p) \/ FetchAll(p) \/ FetchChanges(p) \/ Reset(p)
        \/ Begin(p) \/ BeginBusy(p) \/ Statement(p) \/ Commit(p) \/ Exit(p)

ConcSpec == ConcInit /\ [][ConcNext]_vars

-----------------------------------------------------------------------------
(* The sync pass when the server's answer is an HTTP error or lacks a key *)

\* the keys get_folders and get_folder_changes subscript the answer with;
\* "list" is the 'list' of a Mailbox/get response
FoldersKeys == {"methodResponses", "state", "list"}

ChangesKeys == {"methodResponses", "newState", "destroyed", "created", "updated",
                "updatedProperties", "list"}

\* an answer with a status that is not ok, or with one key missing
Faults(keys) ==
    { [http_ok |-> FALSE, missing |-> "none"] } \cup { [http_ok |-> TRUE, missing |-> k] : k \in keys }

\* what get_folders raises on the answer r with the fault: _post_request
\* raises Exception when r.ok is false, a subscript of a missing key raises
\* KeyError
get_folders_raises(fault, r) ==
    IF ~fault.http_ok THEN "Exception"
    ELSE IF fault.missing \in FoldersKeys THEN "KeyError"
    ELSE "none"

\* a get_folder_changes that reads the answer with .get(): a missing key
\* is not an error
get_folder_changes_lenient(fault, r) == "none"

\* what get_folder_changes raises: 'updatedProperties' is subscripted only
\* when 'updated' is truthy, the 'list' of a Mailbox/get only when its ids
\* are used
get_folder_changes_raises(fault, r) ==
    IF ~fault.http_ok THEN "Exception"
    ELSE IF fault.missing \in {"methodResponses", "newState", "destroyed", "created", "updated"}
    THEN "KeyError"
    ELSE IF fault.missing = "updatedProperties" /\ Truthy(r.updated) THEN "KeyError"
    ELSE IF fault.missing = "list" /\ (Truthy(r.created) \/ UseUpdated(r)) THEN "KeyError"
    ELSE "none"

\* the answers with a fault: one entry at most
FaultListings == { l \in FolderListings : Len(l) <= 1 }

FaultChangeLists ==
    { l \in ChangeLists : Len(l.created) + Len(l.updated) + Len(l.destroyed) <= 1 }

\* the exception leaves the main block: no Storage method is called
Raise(c, error) ==
    /\ pc' = "returned"
    /\ call' = c
    /\ result' = [ok |-> FALSE, error |-> error, constraint |-> "none", stmt |-> "none"]
    /\ pre' = db
    /\ UNCHANGED <<db, conc, ret>>

\* the main block, mirror without a token, on a faulty answer
SyncFetchAllFault ==
    /\ pc = "idle"
    /\ ~TruthyStr(folders_state(db))
    /\ \E l \in FaultListings, state \in StateTokens, account \in AccountNames,
          fault \in Faults(FoldersKeys) :
        LET r == FoldersResponse(state, l)
            raised == get_folders_raises(fault, r)
            got == get_folders(r)
            c == [NoCall EXCEPT !.caller = "main", !.fault = fault]
        IN
        IF raised # "none"
        THEN Raise(c, raised)
        ELSE Execute([c EXCEPT !.op = "save_folders", !.folders = got.folders,
                               !.state = got.state, !.account_name = account])

\* the main block, mirror with a token, on a faulty answer
SyncFetchChangesFault ==
    /\ pc = "idle"
    /\ TruthyStr(folders_state(db))
    /\ \E l \in FaultChangeLists, state \in StateTokens, props \in UpdatedPropertiesValues,
          fault \in Faults(ChangesKeys) :
        LET r == ChangesResponse(state, l.created, l.updated, l.destroyed, props)
            raised == get_folder_changes_raises(fault, r)
            got == get_folder_changes(r)
            c == [NoCall EXCEPT !.caller = "main", !.fault = fault,
                                !.since = folders_state(db), !.response = r]
        IN
        IF raised # "none"
        THEN Raise(c, raised)
        ELSE Execute([c EXCEPT !.op = "update_folders", !.changes = got.changes,
                               !.state = got.state])

FaultNext == SyncFetchAll \/ SyncFetchChanges \/ SyncFetchAllFault \/ SyncFetchChangesFault \/ Return

FaultSpec == Init /\ [][FaultNext]_vars

-----------------------------------------------------------------------------
(* The reads of Storage *)

\* the names of the folders below in the order of SQLite's BINARY collation
TextOrder == <<"Archive", "Inbox", "Work">>

TextRank(t) == CHOOSE i \in DOMAIN TextOrder : TextOrder[i] = t

\* ORDER BY name alone
OrderByName(r, q) == TextRank(r.name) <= TextRank(q.name)

\* ORDER BY sort_order,name: r may come before q
OrderBy(r, q) ==
    \/ r.sort_order < q.sort_order
    \/ r.sort_order = q.sort_order /\ TextRank(r.name) <= TextRank(q.name)

\* the rows of the SELECT of Storage.get_folders: `if parent_id:` takes
\* None and '' to the IS NULL query
SelectFolders(d, parent_id) ==
    IF TruthyStr(parent_id)
    THEN { r \in d.folders : r.parent_server_id = parent_id }
    ELSE { r \in d.folders : r.parent_server_id = None }

\* Storage.get_folders: the lists it may return, one for every order of the
\* selected rows that ORDER BY allows (rows equal in sort_order and name
\* come in any order)
Storage_get_folders(d, parent_id) ==
    LET rows == SelectFolders(d, parent_id)
        n == Cardinality(rows)
        orders == { f \in [1..n -> rows] :
                      /\ \A i, j \in 1..n : i # j => f[i] # f[j]
                      /\ \A i, j \in 1..n : i < j => OrderBy(f[i], f[j]) }
    IN { [i \in 1..n |-> [server_id |-> f[i].server_id, name |-> f[i].name]] : f \in orders }

\* Storage.get_folder: fetchone() is None when no row has the id, and
\* subscripting None raises TypeError
get_folder(d, folder_id) ==
    LET rows == { r \in d.folders : r.server_id = folder_id } IN
    IF rows = {}
    THEN [op |-> "get_folder", arg |-> folder_id, value |-> None, error |-> "TypeError"]
    ELSE LET folder == CHOOSE r \in rows : TRUE IN
         [op |-> "get_folder", arg |-> folder_id,
          value |-> [id |-> folder.server_id, name |-> folder.name], error |-> "none"]

ReadIds == {"A", "B", "C"}

\* the folders a server lists to the mirror that is read: every id as a
\* root or under "A", with one of two names and one of two sort orders
ReadMailboxes ==
    { Mailbox(id, name, None, parent, sort_order) :
        id \in ReadIds, name \in {"Archive", "Inbox"}, parent \in {None, "A"}, sort_order \in {0, 1} }

ReadListings ==
    { l \in SeqsUpTo(ReadMailboxes, Cardinality(ReadIds)) :
        \A i, j \in 1..Len(l) : i # j => l[i].id # l[j].id }

\* the mirror after the first pass: save_folders of a listing under token t1
\* (the empty mirror when save_folders failed)
ReadInit ==
    /\ \E l \in ReadListings :
        db = save_folders(EmptyDb, get_folders(FoldersResponse("t1", l)).folders, "t1", "u1").db
    /\ pc = "idle"
    /\ call = NoCall
    /\ result = NoResult
    /\ pre = db
    /\ procs = [p \in Procs |-> NewProc]
    /\ lock = NoLock
    /\ schema = TableNames
    /\ ret = NoRet

\* a call of storage.get_folders(parent_id)
ReadGetFolders ==
    /\ pc = "idle"
    /\ \E parent_id \in ReadIds \cup {None, ""} :
        \E folders \in Storage_get_folders(db, parent_id) :
            ret' = [op |-> "get_folders", arg |-> parent_id, value |-> folders, error |-> "none"]
    /\ pc' = "returned"
    /\ pre' = db
    /\ UNCHANGED <<db, call, result, conc>>

\* a call of storage.get_folder(folder_id)
ReadGetFolder ==
    /\ pc = "idle"
    /\ \E folder_id \in ReadIds : ret' = get_folder(db, folder_id)
    /\ pc' = "returned"
    /\ pre' = db
    /\ UNCHANGED <<db, call, result, conc>>

\* a sync pass whose diff destroys one folder
ReadDestroy ==
    /\ pc = "idle"
    /\ TruthyStr(folders_state(db))
    /\ \E id \in ReadIds :
        LET r == ChangesResponse("t2", <<>>, <<>>, << id >>, JsonNull)
            got == get_folder_changes(r)
        IN
        Execute([NoCall EXCEPT !.op = "update_folders", !.changes = got.changes,
                               !.state = got.state, !.caller = "main",
                               !.since = folders_state(db), !.response = r])

ReadNext == ReadGetFolders \/ ReadGetFolder \/ ReadDestroy \/ Return

ReadSpec == ReadInit /\ [][ReadNext]_vars

-----------------------------------------------------------------------------
(* Notions the properties below are stated with *)

Returned(op) == pc = "returned" /\ call.op = op

Ids(fs) == { fs[i].id : i \in 1..Len(fs) }

HasRow(d, id) == \E r \in d.folders : r.server_id = id

\* the mirror holds a row for id with exactly these fields
HasFolder(d, id, name, role, parent, sort_order) ==
    \E r \in d.folders :
        /\ r.server_id = id /\ r.name = name /\ r.role = role
        /\ r.parent_server_id = parent /\ r.sort_order = sort_order

\* the row of the mirror a change entry f describes
HasChange(d, f) == HasFolder(d, f.id, f.name, f.role, f.parent_id, f.sort_order)

\* every mutation the call in flight asks for is in the mirror d: a listed
\* or created folder is there, an updated folder carries the fields of its
\* last update, a deleted folder is gone, delete_folders left no folder
MutationsPresent(d) ==
    LET c == call.changes IN
    /\ call.op = "save_folders" =>
          \A i \in 1..Len(call.folders) :
              LET f == call.folders[i] IN
              HasFolder(d, f.server_id, f.name, f.role, f.parent_id, f.sort_order)
    /\ call.op = "update_folders" =>
          /\ \A i \in 1..Len(c.deleted) : ~HasRow(d, c.deleted[i].id)
          /\ \A i \in 1..Len(c.created) :
                (c.created[i].id \notin Ids(c.updated) \cup Ids(c.deleted)) => HasChange(d, c.created[i])
          /\ \A i \in 1..Len(c.updated) :
                ( /\ HasRow(pre, c.updated[i].id)
                  /\ c.updated[i].id \notin Ids(c.deleted)
                  /\ \A j \in (i+1)..Len(c.updated) : c.updated[j].id # c.updated[i].id )
                => HasChange(d, c.updated[i])
    /\ call.op = "delete_folders" => d.folders = {}

\* the token the call in flight is to leave persisted
TokenOfCall == IF call.op = "delete_folders" THEN None ELSE call.state

-----------------------------------------------------------------------------
(* Properties *)

\* C1 (MainSpec): a sync pass asks for the changes since the persisted token,
\* and an update_folders that fails, at whichever statement, leaves the
\* committed folders table and the persisted token as they were before the
\* call, so that the next pass asks for the changes since the same token.
C1_Atomicity ==
    Returned("update_folders") =>
        /\ call.since = folders_state(pre)
        /\ ~result.ok => (db.folders = pre.folders /\ folders_state(db) = folders_state(pre))

\* an update_folders that failed at a delete or at the token update, after an
\* UPDATE that renamed a folder had been staged
C1_Witness ==
    /\ Returned("update_folders")
    /\ ~result.ok
    /\ result.stmt \in {"delete", "update token"}
    /\ \E i \in 1..Len(call.changes.updated) :
          \E r \in pre.folders :
              r.server_id = call.changes.updated[i].id /\ r.name # call.changes.updated[i].name
    /\ db = pre

\* C2 (Spec): after any call of save_folders, update_folders or
\* delete_folders, the persisted token has changed only if the call committed
\* and all its folder mutations are in the mirror, and the folders table has
\* changed only if the call committed and the token is the one of that call.
C2_TokenWithData ==
    pc = "returned" =>
        /\ folders_state(db) # folders_state(pre) => (result.ok /\ MutationsPresent(db))
        /\ db.folders # pre.folders => (result.ok /\ folders_state(db) = TokenOfCall)

\* an update_folders that committed a changed folders table together with a
\* new token
C2_Witness ==
    /\ Returned("update_folders")
    /\ result.ok
    /\ db.folders # pre.folders
    /\ folders_state(db) # folders_state(pre)
    /\ folders_state(db) = call.state

\* C3 as claimed (MainSpec): a changes response whose created list names a
\* child before its parent, both new to the mirror, ends with both rows in
\* the mirror, the child's parent_server_id naming the parent, and the token
\* advanced to the new state.
C3_ChildBeforeParent ==
    LET r == call.response IN
    ( /\ Returned("update_folders")
      /\ call.caller = "main"
      /\ Len(r.createdList) = 2
      /\ r.createdList[1].parentId = r.createdList[2].id
      /\ r.createdList[2].parentId = None
      /\ r.createdList[1].id # r.createdList[2].id
      /\ \A i \in 1..2 : /\ r.createdList[i].id # "" /\ r.createdList[i].name # ""
                         /\ ~HasRow(pre, r.createdList[i].id)
      /\ r.updatedList = <<>>
      /\ r.destroyed = <<>>
      /\ TruthyStr(r.newState) )
    => /\ result.ok
       /\ \A i \in 1..2 : HasRow(db, r.createdList[i].id)
       /\ \E c \in db.folders : /\ c.server_id = r.createdList[1].id
                                /\ c.parent_server_id = r.createdList[2].id
       /\ folders_state(db) = r.newState

\* a full listing that is a forest: ids non-empty and distinct, names
\* non-empty, every parent_id None or the id of another listed node that is
\* not in turn its child
ValidForest(fs) ==
    /\ \A i \in 1..Len(fs) : fs[i].server_id # "" /\ fs[i].name # ""
    /\ \A i, j \in 1..Len(fs) : i # j => fs[i].server_id # fs[j].server_id
    /\ \A i \in 1..Len(fs) :
          \/ fs[i].parent_id = None
          \/ \E j \in 1..Len(fs) : /\ j # i
                                   /\ fs[j].server_id = fs[i].parent_id
                                   /\ fs[j].parent_id # fs[i].server_id

\* C4 as claimed (MainSpec): whatever the order of a full listing that is a
\* valid forest, save_folders commits, every listed node is in the mirror
\* and the token is the fetched state.
C4_FullFetchAnyOrder ==
    ( /\ Returned("save_folders")
      /\ ValidForest(call.folders)
      /\ TruthyStr(call.state) )
    => /\ result.ok
       /\ MutationsPresent(db)
       /\ folders_state(db) = call.state

\* a diff that is consistent with the mirror: the created nodes are new,
\* well-formed and under no parent or one the mirror holds, nothing is
\* updated, and no destroyed id is the parent of a row or of a created node
ConsistentDiff(r) ==
    /\ \A i \in 1..Len(r.createdList) :
          LET m == r.createdList[i] IN
          /\ m.id # "" /\ m.name # ""
          /\ ~HasRow(pre, m.id)
          /\ \A j \in 1..Len(r.createdList) : j # i => r.createdList[j].id # m.id
          /\ m.parentId = None \/ HasRow(pre, m.parentId)
          /\ \A k \in 1..Len(r.destroyed) : r.destroyed[k] # m.parentId
    /\ r.updatedList = <<>>
    /\ \A k \in 1..Len(r.destroyed) :
          \A row \in pre.folders : row.parent_server_id # r.destroyed[k]
    /\ TruthyStr(r.newState)

\* C5 as claimed (MainSpec): from Synced, a pass whose diff is consistent
\* with the mirror commits: the created nodes are present, the destroyed
\* ones absent, the token is the diff's new state.
C5_ConsistentDiffCommits ==
    ( /\ Returned("update_folders")
      /\ call.caller = "main"
      /\ ConsistentDiff(call.response) )
    => /\ result.ok
       /\ \A i \in 1..Len(call.response.createdList) : HasRow(db, call.response.createdList[i].id)
       /\ \A k \in 1..Len(call.response.destroyed) : ~HasRow(db, call.response.destroyed[k])
       /\ folders_state(db) = call.response.newState

\* the rows of the updated ids are in the mirror as they were before the pass
UpdatedRowsUntouched(r) ==
    \A row \in pre.folders : row.server_id \in SeqToSet(r.updated.items) => row \in db.folders

\* the response names updated ids and nothing created or destroyed
OnlyUpdated(r) ==
    /\ Truthy(r.updated)
    /\ ~Truthy(r.created)
    /\ r.destroyed = <<>>
    /\ TruthyStr(r.newState)

DeletesParentOf(c, i) ==
    LET d == call.changes.deleted IN
    /\ i \in 1..Len(d)
    /\ c \in pre.folders
    /\ c.parent_server_id = d[i].id
    /\ c.server_id # d[i].id

\* the call fails with an integrity error and leaves the folders table and
\* the token as they were
RejectedUnchanged ==
    /\ ~result.ok
    /\ result.error = "IntegrityError"
    /\ db.folders = pre.folders
    /\ folders_state(db) = folders_state(pre)

\* C7 as claimed (Spec): an update_folders whose deleted-set names a folder
\* that has a child in the mirror fails with an integrity error and leaves
\* parent, child and token as they were.
C7_DeletionGuardAnyChild ==
    ( /\ Returned("update_folders")
      /\ \E c \in pre.folders : \E i \in 1..Len(call.changes.deleted) : DeletesParentOf(c, i) )
    => RejectedUnchanged

\* C7 as amended (Spec): an update_folders whose deleted-set names a folder
\* that still has a child in the mirror when its DELETE runs, that is a child
\* the same call neither names in its updated-set nor deletes earlier in its
\* deleted-set, fails with an integrity error and leaves parent, child and
\* token as they were.
C7_DeletionGuard ==
    ( /\ Returned("update_folders")
      /\ \E c \in pre.folders : \E i \in 1..Len(call.changes.deleted) :
            /\ DeletesParentOf(c, i)
            /\ c.server_id \notin Ids(call.changes.updated)
            /\ \A j \in 1..(i-1) : call.changes.deleted[j].id # c.server_id )
    => ( /\ RejectedUnchanged
         /\ \A c \in pre.folders : \A i \in 1..Len(call.changes.deleted) :
               DeletesParentOf(c, i) =>
                   (c \in db.folders /\ \E p \in db.folders : p.server_id = c.parent_server_id) )

\* the DELETE of a parent was refused by the foreign key, nothing created or
\* updated in the same call
C7_Witness ==
    /\ Returned("update_folders")
    /\ call.changes.created = <<>>
    /\ call.changes.updated = <<>>
    /\ \E c \in pre.folders : DeletesParentOf(c, 1)
    /\ result.stmt = "delete"
    /\ result.constraint = "FOREIGN KEY"
    /\ RejectedUnchanged
    /\ TruthyStr(folders_state(db))

\* C8 (MainSpec): a pass calls save_folders exactly when no token is
\* persisted and update_folders exactly when one is; a pass that succeeds
\* leaves a token persisted, and no pass removes a persisted token: once
\* Synced, every later run takes the diff path and save_folders is not
\* called again.
C8_SyncStateMachine ==
    pc = "returned" =>
        /\ call.op = "save_folders" <=> folders_state(pre) = None
        /\ call.op = "update_folders" <=> folders_state(pre) # None
        /\ result.ok => folders_state(db) # None
        /\ folders_state(pre) # None => folders_state(db) # None

\* a diff pass that committed: it follows the successful full fetch of an
\* earlier run
C8_Witness ==
    /\ Returned("update_folders")
    /\ call.caller = "main"
    /\ result.ok
    /\ folders_state(pre) # None
    /\ folders_state(db) # folders_state(pre)

C10_IdempotentSecondPass ==
    LET r == call.response IN
    ( /\ Returned("update_folders")
      /\ call.caller = "main"
      /\ ~Truthy(r.created) /\ ~Truthy(r.updated) /\ r.destroyed = <<>>
      /\ r.newState = folders_state(pre) )
    => ( result.ok /\ db.folders = pre.folders /\ folders_state(db) = folders_state(pre) )

\* such a pass, on a mirror that holds folders
C10_Witness ==
    LET r == call.response IN
    /\ Returned("update_folders")
    /\ call.caller = "main"
    /\ ~Truthy(r.created) /\ ~Truthy(r.updated) /\ r.destroyed = <<>>
    /\ r.newState = folders_state(pre)
    /\ pre.folders # {}
    /\ result.ok
    /\ db = pre

\* a process's Storage call has ended: the with-block was left by COMMIT,
\* by ROLLBACK, or never entered
Ended(p, op) == procs[p].pc = "done" /\ procs[p].call.op = op

\* C11 (ConcSpec): with two processes running sync passes on one file, a
\* diff is committed only on top of the token it was asked for: the token
\* a Synced file holds when update_folders commits is the sinceState of the
\* pass's get_folder_changes.
C11_NoOverlappingPasses ==
    \A p \in Procs :
        ( /\ Ended(p, "update_folders")
          /\ procs[p].result.ok
          /\ folders_state(procs[p].base) # None )
        => procs[p].call.since = folders_state(procs[p].base)

\* C12 (ConcSpec): at most one write transaction is open at any time, the
\* process inside it holds the write lock from before its first statement,
\* and a writer refused the lock is refused by BEGIN, with none of its
\* statements run.
C12_ImmediateWriteIntent ==
    /\ Cardinality({ p \in Procs : procs[p].pc = "txn" }) <= 1
    /\ \A p \in Procs : procs[p].pc = "txn" => lock = p
    /\ \A p \in Procs :
        ( procs[p].pc = "done" /\ procs[p].result.constraint = "database is locked" )
        => ( procs[p].result.stmt = "begin" /\ procs[p].ran = 0 /\ procs[p].todo = <<>> )

\* one process is refused by BEGIN while the other is inside update_folders
\* with a statement already run
C12_Witness ==
    \E p, q \in Procs :
        /\ procs[p].pc = "done"
        /\ procs[p].call.op = "update_folders"
        /\ procs[p].result.constraint = "database is locked"
        /\ procs[q].pc = "txn"
        /\ procs[q].call.op = "update_folders"
        /\ procs[q].ran > 0
        /\ lock = q

\* the answer of the pass in flight is one its EmailServer method raises
\* on: a status that is not ok, or a missing key that the method subscripts
AnswerRaises ==
    LET f == call.fault
        r == call.response
    IN
    /\ call.caller = "main"
    /\ \/ ~f.http_ok
       \/ f.missing \in {"methodResponses", "state", "newState", "destroyed", "created", "updated"}
       \/ f.missing = "updatedProperties" /\ Truthy(r.updated)
       \/ f.missing = "list" /\ (call.since = None \/ Truthy(r.created) \/ UseUpdated(r))

\* C13 (FaultSpec): a sync pass whose get_folders or get_folder_changes
\* raises (HTTP error, or a missing key of the response) calls no write
\* method of Storage: the pass ends with that exception and the folders
\* table, the accounts and the token are what they were.
C13_FetchFailureNoWrite ==
    ( pc = "returned" /\ AnswerRaises )
    => ( /\ call.op = "none"
         /\ ~result.ok
         /\ result.error \in {"Exception", "KeyError"}
         /\ db = pre )

\* a Synced mirror with folders, and a changes response that lists an
\* updated id but has no 'updatedProperties'
C13_Witness ==
    /\ pc = "returned"
    /\ AnswerRaises
    /\ call.fault.missing = "updatedProperties"
    /\ TruthyStr(folders_state(pre))
    /\ pre.folders # {}
    /\ result.error = "KeyError"
    /\ db = pre

\* C14 (Spec): in every committed state reached by save_folders,
\* update_folders and delete_folders calls, every folder's parent_server_id
\* is null or the server_id of a folder of the mirror, server_ids are
\* non-empty and pairwise distinct, and every name is non-empty.
C14_MirrorIntegrity ==
    /\ \A r \in db.folders :
        /\ r.parent_server_id = None \/ HasRow(db, r.parent_server_id)
        /\ r.server_id \notin {None, ""}
        /\ r.name \notin {None, ""}
    /\ \A r, q \in db.folders : r.server_id = q.server_id => r = q

\* an update_folders that committed a change to a mirror where a folder has
\* a parent
C14_Witness ==
    /\ Returned("update_folders")
    /\ result.ok
    /\ db.folders # pre.folders
    /\ \E r \in db.folders : r.parent_server_id # None

\* a read of Storage has answered
Answered(op) == pc = "returned" /\ ret.op = op

\* the mirror initialized with A as a root, B under A and C as a root
\* behind A in sort order
ExampleMirror ==
    save_folders(EmptyDb,
                 get_folders(FoldersResponse("t1",
                     << Mailbox("A", "Inbox", None, None, 0),
                        Mailbox("B", "Archive", None, "A", 0),
                        Mailbox("C", "Inbox", None, None, 1) >>)).folders,
                 "t1", "u1").db

\* C15 (ReadSpec): get_folders(None) returns exactly the folders whose
\* parent is null and get_folders(p), p a folder id, exactly those whose
\* parent is p, as {server_id, name} in the order of (sort_order, name); on
\* the mirror initialized with A root, B child-of-A, C root that is [A, C]
\* and [B]; and the read leaves the mirror unchanged.
C15_ReadModel ==
    ( Answered("get_folders") /\ ret.arg \in ReadIds \cup {None} )
    => LET v == ret.value
           rows == { r \in db.folders : r.parent_server_id = ret.arg }
           row(i) == CHOOSE r \in db.folders : r.server_id = v[i].server_id
       IN
       /\ ret.error = "none"
       /\ Len(v) = Cardinality(rows)
       /\ { v[i].server_id : i \in 1..Len(v) } = { r.server_id : r \in rows }
       /\ \A i \in 1..Len(v) : v[i].name = row(i).name
       /\ \A i, j \in 1..Len(v) :
            i < j => \/ row(i).sort_order < row(j).sort_order
                     \/ /\ row(i).sort_order = row(j).sort_order
                        /\ TextRank(v[i].name) <= TextRank(v[j].name)
       /\ db = ExampleMirror /\ ret.arg = None
            => v = << [server_id |-> "A", name |-> "Inbox"], [server_id |-> "C", name |-> "Inbox"] >>
       /\ db = ExampleMirror /\ ret.arg = "A"
            => v = << [server_id |-> "B", name |-> "Archive"] >>
       /\ db = pre

\* get_folders(None) has answered on the mirror of the example
C15_Witness ==
    /\ Answered("get_folders")
    /\ ret.arg = None
    /\ db = ExampleMirror
    /\ Len(ret.value) = 2

\* C16 (ReadSpec): get_folder(id) returns the {id, name} of the folder with
\* that server_id when the mirror holds it, and ends with a NotFound outcome,
\* no other failure, when it does not.
C16_NodeLookup ==
    Answered("get_folder")
    => IF HasRow(db, ret.arg)
       THEN /\ ret.error = "none"
            /\ ret.value.id = ret.arg
            /\ \E r \in db.folders : r.server_id = ret.arg /\ r.name = ret.value.name
       ELSE ret.error = "NotFound"

\* an update_folders that only deletes, on a Synced mirror and with a new
\* token, whose deleted-set holds, with every folder it names, the children
\* that folder has in the mirror (and so all its descendants)
DeletesSubtrees ==
    LET d == call.changes.deleted IN
    /\ Returned("update_folders")
    /\ call.changes.created = <<>>
    /\ call.changes.updated = <<>>
    /\ d # <<>>
    /\ TruthyStr(call.state)
    /\ folders_state(pre) # None
    /\ \A c \in pre.folders : \A i \in 1..Len(d) : DeletesParentOf(c, i) => c.server_id \in Ids(d)

\* the call committed: none of the folders it names is left, the others are
\* as they were and the token is the new one
SubtreesDeleted ==
    /\ result.ok
    /\ db.folders = { r \in pre.folders : r.server_id \notin Ids(call.changes.deleted) }
    /\ folders_state(db) = call.state

\* C17 as claimed (Spec): an update_folders whose deleted-set holds a folder
\* together with all its descendants commits whatever the order of the ids,
\* leaving none of them in the mirror and the token advanced.
C17_SubtreeDeleteAnyOrder == DeletesSubtrees => SubtreesDeleted

\* C17 as amended (Spec): such a call commits when every folder is listed
\* after the children it has in the mirror, and is refused by the foreign
\* key, folders and token left as they were, when a folder is listed before
\* one of its children.
C17_SubtreeDeleteChildFirst ==
    LET d == call.changes.deleted
        childFirst == \A c \in pre.folders : \A i \in 1..Len(d) :
                          DeletesParentOf(c, i) => \E j \in 1..(i-1) : d[j].id = c.server_id
    IN
    DeletesSubtrees =>
        IF childFirst THEN SubtreesDeleted
        ELSE RejectedUnchanged /\ result.constraint = "FOREIGN KEY" /\ result.stmt = "delete"

\* a child and then its parent were deleted by one call
C17_Witness ==
    /\ DeletesSubtrees
    /\ Len(call.changes.deleted) = 2
    /\ \E c \in pre.folders : DeletesParentOf(c, 2) /\ call.changes.deleted[1].id = c.server_id
    /\ SubtreesDeleted
    /\ db.folders = {}

\* every folder of the listing comes after its parent
ParentFirst(fs) ==
    \A i \in 1..Len(fs) :
        fs[i].parent_id = None \/ \E j \in 1..(i-1) : fs[j].server_id = fs[i].parent_id

\* the first pass after a delete_folders, for the account the mirror was
\* initialized for, with a well-formed listing and token
PassAfterReset ==
    /\ Returned("save_folders")
    /\ call.caller = "main"
    /\ folders_state(pre) = None
    /\ pre.folders = {}
    /\ \E a \in pre.accounts : a.name = call.account_name
    /\ ValidForest(call.folders)
    /\ ParentFirst(call.folders)
    /\ TruthyStr(call.state)

\* C18 (ResetSpec): delete_folders removes the token and every folder row in
\* one transaction (folders_state is None, get_folders(None) is empty), and
\* the next sync pass for the same account initializes the mirror again
\* through save_folders: its folders and its token are committed.
C18_ResetAndRebootstrap ==
    /\ Returned("delete_folders")
         => ( /\ result.ok
              /\ folders_state(db) = None
              /\ Storage_get_folders(db, None) = { <<>> }
              /\ db.folders = {} )
    /\ PassAfterReset
         => ( /\ result.ok
              /\ folders_state(db) = call.state
              /\ \A i \in 1..Len(call.folders) : HasRow(db, call.folders[i].server_id) )

====
